---- MODULE Spec2Model ----
(***************************************************************************)
(* A model of index.py: NewsFetcher (HTTP GET with the urllib3 Retry       *)
(* policy mounted on the session) and NewsParser (dedup by link, sort by   *)
(* published, sentiment scoring, neutral adjustment, keyword filters, the  *)
(* JSON report and the HTML dashboard).                                    *)
(*                                                                         *)
(* Python strings are sequences of Unicode code points.  Article dicts are *)
(* objects: a list of articles is a sequence of object ids into a heap, so *)
(* that the in-place updates of analyze_sentiment and adjust_subjectivity  *)
(* are seen through every list that holds the object.  Floats are kept in  *)
(* thousandths (0.1 is 100).                                               *)
(***************************************************************************)
EXTENDS Integers, Sequences, FiniteSets, TLC

VARIABLES
    pc,                     \* position of NewsParser.main
    exc,                    \* the exception that ended main, or "none"
    fpc,                    \* position of fetch_news: "get" or "handle"
    total,                  \* Retry.total left for the running session.get
    trace,                  \* outcomes of the GET attempts of the running call
    response,               \* the local `response` of fetch_news
    get_raised,             \* the RequestException session.get raised, or "none"
    status,                 \* how each fetch_news call ended
    issued,                 \* the fetch_news calls made so far, in order
    vish_news, high_speed_news, russian_railways_news,
    all_articles,           \* the article objects (id = position in the merged list)
    unique_articles,        \* ids, in the order of the dict's values view
    analyzed_articles,      \* ids; the same list as sorted_/adjusted_articles
    filtered_vish, filtered_high_speed, filtered_rzd, final_articles,
    clf_calls,              \* invocations of the sentiment model
    dashboard_content,      \* the rendered dashboard, as its pieces
    json_file, html_file,   \* all_articles.json and news_dashboard.html
    p_fn, p_input, p_keywords, p_clf, p_articles, p_result, p_done

mainVars == <<pc, exc, fpc, total, trace, response, get_raised, status, issued,
              vish_news, high_speed_news, russian_railways_news, all_articles,
              unique_articles, analyzed_articles, filtered_vish,
              filtered_high_speed, filtered_rzd, final_articles, clf_calls,
              dashboard_content, json_file, html_file>>

pureVars == <<p_fn, p_input, p_keywords, p_clf, p_articles, p_result, p_done>>

vars == <<mainVars, pureVars>>

----------------------------------------------------------------------------
(* Bounds of the model *)

\* articles in one 200 response of the search API
MaxPerQuery == 1

\* length of the lists handed to filter_and_sort_articles, analyze_sentiment
\* and adjust_subjectivity when they are checked on their own
MaxLen == 3

\* length of the article list and of the keyword list handed to
\* filter_articles_by_keywords when it is checked on its own
MaxFilterLen == 2
MaxKeywords == 2

----------------------------------------------------------------------------
(* Program constants *)

\* Retry(total=5, ...)
RetryTotal == 5

\* status_forcelist=[500, 502, 503, 504]
status_forcelist == {500, 502, 503, 504}

\* article['subjectivity'] = 0.1, in thousandths
NeutralSubjectivity == 100

\* "inzhenernaya shkola", "RUT MIIT", "VISH" (in Cyrillic)
keywords_vish ==
    << <<1080, 1085, 1078, 1077, 1085, 1077, 1088, 1085, 1072, 1103, 32,
         1096, 1082, 1086, 1083, 1072>>,
       <<1056, 1059, 1058, 32, 1052, 1048, 1048, 1058>>,
       <<1042, 1048, 1064>> >>

\* "VSM", "skorostnye magistrali", "vysokoskorostnoy" (in Cyrillic)
keywords_high_speed ==
    << <<1042, 1057, 1052>>,
       <<1089, 1082, 1086, 1088, 1086, 1089, 1090, 1085, 1099, 1077, 32,
         1084, 1072, 1075, 1080, 1089, 1090, 1088, 1072, 1083, 1080>>,
       <<1074, 1099, 1089, 1086, 1082, 1086, 1089, 1082, 1086, 1088, 1086,
         1089, 1090, 1085, 1086, 1081>> >>

\* "RZhD", "Rossiyskie zheleznye dorogi" (in Cyrillic)
keywords_rzd ==
    << <<1056, 1046, 1044>>,
       <<1056, 1086, 1089, 1089, 1080, 1081, 1089, 1082, 1080, 1077, 32,
         1078, 1077, 1083, 1077, 1079, 1085, 1099, 1077, 32, 1076, 1086,
         1088, 1086, 1075, 1080>> >>

\* the three wrappers of fetch_news, in the order main calls them
Queries == <<"fetch_vish_news", "fetch_high_speed_railways",
             "fetch_russian_railways">>

----------------------------------------------------------------------------
(* Inputs: what the search API and the sentiment model may answer *)

\* "2024-01-01T00:00:00Z"
PubJan == <<50, 48, 50, 52, 45, 48, 49, 45, 48, 49, 84, 48, 48, 58, 48, 48,
            58, 48, 48, 90>>

\* "2024-03-01T00:00:00Z"
PubMar == <<50, 48, 50, 52, 45, 48, 51, 45, 48, 49, 84, 48, 48, 58, 48, 48,
            58, 48, 48, 90>>

\* "2024-1": a prefix-free shorter string above both under code point order
PubShort == <<50, 48, 50, 52, 45, 49>>

\* "VISH i RZhD": holds a keyword of keywords_vish and one of keywords_rzd
TitleVishRzd == <<1042, 1048, 1064, 32, 1080, 32, 1056, 1046, 1044>>

\* "Pogoda": holds no keyword
TitlePogoda == <<1055, 1086, 1075, 1086, 1076, 1072>>

\* "VSM": holds a keyword of keywords_high_speed
TitleVsm == <<1042, 1057, 1052>>

\* result objects of the API's `articles` array
RawPool ==
    { [title |-> TitleVishRzd, url |-> "A", publishedAt |-> PubJan],
      [title |-> TitlePogoda,  url |-> "A", publishedAt |-> PubMar],
      [title |-> TitleVsm,     url |-> "B", publishedAt |-> PubMar] }

SeqsUpTo(S, n) == UNION { [1..k -> S] : k \in 0..n }

\* JSON bodies of a 200 response: with an `articles` array, or without the key
Bodies ==
    { [has_articles |-> TRUE, articles |-> a] : a \in SeqsUpTo(RawPool, MaxPerQuery) }
    \cup { [has_articles |-> FALSE, articles |-> <<>>] }

Labels == {"POSITIVE", "NEGATIVE", "NEUTRAL"}

\* confidence scores of the model, in thousandths
Scores == {870, 554}

ClfResults == [label : Labels, score : Scores]

\* the answers the model gives during a run of main
MainClfResults ==
    { [label |-> "POSITIVE", score |-> 870],
      [label |-> "NEGATIVE", score |-> 554],
      [label |-> "NEUTRAL",  score |-> 870] }

\* outcomes of one GET attempt: a status code, or 0 for a connection error
ConnError == 0
ServerOutcomes == {200, 404, 503, ConnError}

----------------------------------------------------------------------------
(* Python strings and lists *)

\* a < b for str: code point order, a proper prefix is smaller
RECURSIVE StrLess(_, _)
StrLess(a, b) ==
    IF b = <<>> THEN FALSE
    ELSE IF a = <<>> THEN TRUE
    ELSE IF Head(a) # Head(b) THEN Head(a) < Head(b)
    ELSE StrLess(Tail(a), Tail(b))

\* `k in s` for str
StrContains(s, k) ==
    \E i \in 0..(Len(s) - Len(k)) : SubSeq(s, i + 1, i + Len(k)) = k

\* article.get('description', '')
GetDescription(article) ==
    IF article.has_description THEN article.description ELSE <<>>

\* any(keyword in title or keyword in summary for keyword in keywords)
RECURSIVE AnyKeyword(_, _, _)
AnyKeyword(title, summary, keywords) ==
    IF keywords = <<>> THEN FALSE
    ELSE \/ StrContains(title, Head(keywords))
         \/ StrContains(summary, Head(keywords))
         \/ AnyKeyword(title, summary, Tail(keywords))

----------------------------------------------------------------------------
(* NewsFetcher *)

\* the dict fetch_news builds from one result object; sentiment and
\* subjectivity are keys the dict does not have yet
Project(article) ==
    [title |-> article.title, link |-> article.url,
     published |-> article.publishedAt,
     has_description |-> FALSE, description |-> <<>>,
     sentiment |-> "absent", subjectivity |-> -1]

\* response.json().get('articles', []) and the list comprehension over it
ParseArticles(body) ==
    LET articles == IF body.has_articles THEN body.articles ELSE <<>>
    IN  [i \in 1..Len(articles) |-> Project(articles[i])]

\* Retry.is_retry for a GET: the status is in status_forcelist
IsRetry(status_code) == status_code \in status_forcelist

\* is_exhausted giving up one attempt early
IsExhaustedAtZero(left) == left <= 0

\* Retry.is_exhausted after Retry.increment has taken one off total
IsExhausted(left) == left < 0

\* Response.raise_for_status raises HTTPError
RaisesForStatus(status_code) == status_code >= 400 /\ status_code < 600

----------------------------------------------------------------------------
(* NewsParser: the functions of the pipeline.  heap holds the article      *)
(* objects, ids is a list of them.                                         *)

\* {entry['link']: entry for entry in all_articles}.values(): a key keeps the
\* place of its first insertion and takes the value of its last
RECURSIVE DictValues(_, _, _)
DictValues(heap, ids, acc) ==
    IF ids = <<>> THEN acc
    ELSE LET e == Head(ids)
             hit == { j \in 1..Len(acc) : heap[acc[j]].link = heap[e].link }
         IN  DictValues(heap, Tail(ids),
                 IF hit = {} THEN Append(acc, e)
                 ELSE [j \in 1..Len(acc) |-> IF j \in hit THEN e ELSE acc[j]])

\* a dedup that keeps the first article seen for a link
RECURSIVE KeepFirstValues(_, _, _)
KeepFirstValues(heap, ids, acc) ==
    IF ids = <<>> THEN acc
    ELSE KeepFirstValues(heap, Tail(ids),
            IF \E j \in 1..Len(acc) : heap[acc[j]].link = heap[Head(ids)].link
            THEN acc ELSE Append(acc, Head(ids)))

UniqueByLinkKeepFirst(heap, ids) == KeepFirstValues(heap, ids, <<>>)

UniqueByLink(heap, ids) == DictValues(heap, ids, <<>>)

\* one step of the stable descending sort: x goes before the first element
\* whose key is smaller than its own
RECURSIVE InsertDescending(_, _, _)
InsertDescending(heap, sorted, x) ==
    IF sorted = <<>> THEN <<x>>
    ELSE IF StrLess(heap[Head(sorted)].published, heap[x].published)
         THEN <<x>> \o sorted
         ELSE <<Head(sorted)>> \o InsertDescending(heap, Tail(sorted), x)

RECURSIVE SortedDescending(_, _, _)
SortedDescending(heap, ids, acc) ==
    IF ids = <<>> THEN acc
    ELSE SortedDescending(heap, Tail(ids), InsertDescending(heap, acc, Head(ids)))

\* the sort without reverse=True
SortAscending(heap, ids) ==
    LET d == SortedDescending(heap, ids, <<>>)
    IN  [i \in 1..Len(d) |-> d[Len(d) + 1 - i]]

\* sorted(articles, key=lambda x: x['published'], reverse=True)
FilterAndSortArticles(heap, ids) == SortedDescending(heap, ids, <<>>)

\* the loop of analyze_sentiment; clf[i] is what the model answers to the
\* i-th call.  The objects are updated in place and the same list is returned.
RECURSIVE AnalyzeLoop(_, _, _, _)
AnalyzeLoop(heap, ids, clf, i) ==
    IF i > Len(ids) THEN heap
    ELSE AnalyzeLoop(
            [heap EXCEPT ![ids[i]].sentiment = clf[i].label,
                         ![ids[i]].subjectivity = clf[i].score],
            ids, clf, i + 1)

\* a scoring that works on copies of the articles and returns the copies
AnalyzeSentimentOnCopies(heap, ids, clf) ==
    LET n == Len(heap)
        copies == [i \in 1..Len(ids) |->
                      [heap[ids[i]] EXCEPT !.sentiment = clf[i].label,
                                           !.subjectivity = clf[i].score]]
    IN  [heap |-> heap \o copies, list |-> [i \in 1..Len(ids) |-> n + i]]

AnalyzeSentiment(heap, ids, clf) ==
    [heap |-> AnalyzeLoop(heap, ids, clf, 1), list |-> ids]

\* the loop of adjust_subjectivity, in place as well
RECURSIVE AdjustLoop(_, _, _)
AdjustLoop(heap, ids, i) ==
    IF i > Len(ids) THEN heap
    ELSE AdjustLoop(
            IF heap[ids[i]].sentiment = "NEUTRAL"
            THEN [heap EXCEPT ![ids[i]].subjectivity = NeutralSubjectivity]
            ELSE heap,
            ids, i + 1)

\* an adjustment that forgets to test the sentiment
AdjustEveryArticle(heap, ids) ==
    [heap |-> [x \in 1..Len(heap) |->
                  IF x \in { ids[i] : i \in 1..Len(ids) }
                  THEN [heap[x] EXCEPT !.subjectivity = NeutralSubjectivity]
                  ELSE heap[x]],
     list |-> ids]

AdjustSubjectivity(heap, ids) ==
    [heap |-> AdjustLoop(heap, ids, 1), list |-> ids]

\* a filter that looks at the title only
KeepArticleTitleOnly(article, keywords) ==
    AnyKeyword(article.title, <<>>, keywords)

\* the condition of filter_articles_by_keywords for one article
KeepArticle(article, keywords) ==
    AnyKeyword(article.title, GetDescription(article), keywords)

RECURSIVE FilterLoop(_, _, _, _)
FilterLoop(heap, ids, keywords, filtered_articles) ==
    IF ids = <<>> THEN filtered_articles
    ELSE FilterLoop(heap, Tail(ids), keywords,
            IF KeepArticle(heap[Head(ids)], keywords)
            THEN Append(filtered_articles, Head(ids))
            ELSE filtered_articles)

FilterArticlesByKeywords(heap, ids, keywords) ==
    FilterLoop(heap, ids, keywords, <<>>)

\* a concatenation that leaves out the articles it already has
ConcatFinalDistinct(fv, fh, fr) ==
    LET in(list, x) == \E i \in 1..Len(list) : list[i] = x
        fh2 == SelectSeq(fh, LAMBDA x : ~in(fv, x))
        fr2 == SelectSeq(fr, LAMBDA x : ~in(fv \o fh2, x))
    IN  fv \o fh2 \o fr2

\* final_articles = filtered_vish + filtered_high_speed + filtered_rzd
ConcatFinal(fv, fh, fr) == fv \o fh \o fr

\* f"{x:.2f}": thousandths rounded to hundredths (no score of the model ends
\* in 5, where the float's binary value would decide)
FormatFixed2(x) == (x + 5) \div 10

SentimentColor(sentiment) ==
    IF sentiment = "POSITIVE" THEN "green"
    ELSE IF sentiment = "NEGATIVE" THEN "red" ELSE "gray"

Piece(kind, entry) ==
    [kind |-> kind, href |-> entry.link, color |-> SentimentColor(entry.sentiment),
     title |-> entry.title, published |-> entry.published,
     sentiment |-> entry.sentiment,
     subjectivity |-> FormatFixed2(entry.subjectivity)]

BlankEntry ==
    [link |-> "", sentiment |-> "", title |-> <<>>, published |-> <<>>,
     subjectivity |-> 0]

\* create_dashboard: the head, one <li> per entry of data, the tail
CreateDashboard(heap, data) ==
    <<Piece("head", BlankEntry)>>
    \o [i \in 1..Len(data) |-> Piece("li", heap[data[i]])]
    \o <<Piece("tail", BlankEntry)>>

Deref(heap, ids) == [i \in 1..Len(ids) |-> heap[ids[i]]]

\* the dict `result` of main as json.dump walks it: six keys in this order,
\* every list read through the objects as they are at that moment
Result(heap, unique, analyzed, fv, fh, fr, final) ==
    << [key |-> "unique_articles",     value |-> Deref(heap, unique)],
       [key |-> "analyzed_articles",   value |-> Deref(heap, analyzed)],
       [key |-> "filtered_vish",       value |-> Deref(heap, fv)],
       [key |-> "filtered_high_speed", value |-> Deref(heap, fh)],
       [key |-> "filtered_rzd",        value |-> Deref(heap, fr)],
       [key |-> "final_articles",      value |-> Deref(heap, final)] >>

\* a write through a temporary file: the target changes only when all of
\* `pieces` went out
WriteFileAtomically(old, pieces, k) ==
    IF k = Len(pieces) THEN [origin |-> "run", content |-> pieces] ELSE old

\* open(filename, 'w') and the writes of `pieces`, of which the first k got
\* through: the file is created or truncated and holds what was written
WriteFile(old, pieces, k) ==
    [origin |-> "run", content |-> SubSeq(pieces, 1, k)]

----------------------------------------------------------------------------
(* State of a run of main *)

FetchPcs == { Queries[i] : i \in 1..Len(Queries) }

\* what main does after the fetch_news call it is in
AfterFetch(p) ==
    IF p = "fetch_vish_news" THEN "fetch_high_speed_railways"
    ELSE IF p = "fetch_high_speed_railways" THEN "fetch_russian_railways"
    ELSE "dedup"

NoBody == [has_articles |-> FALSE, articles |-> <<>>]

\* `response` is not bound before session.get returns
Unbound == [bound |-> FALSE, status_code |-> 0, body |-> NoBody]

\* the run starts in a directory that holds neither output file
Absent == [origin |-> "absent", content |-> <<>>]

pipelineVars == <<all_articles, unique_articles, analyzed_articles, filtered_vish,
                  filtered_high_speed, filtered_rzd, final_articles, clf_calls,
                  dashboard_content, json_file, html_file>>

newsVars == <<vish_news, high_speed_news, russian_railways_news>>

MainInit ==
    /\ pc = "fetch_vish_news"
    /\ exc = "none"
    /\ fpc = "get"
    /\ total = RetryTotal
    /\ trace = <<>>
    /\ response = Unbound
    /\ get_raised = "none"
    /\ status = [q \in FetchPcs |-> "pending"]
    /\ issued = <<>>
    /\ vish_news = <<>>
    /\ high_speed_news = <<>>
    /\ russian_railways_news = <<>>
    /\ all_articles = <<>>
    /\ unique_articles = <<>>
    /\ analyzed_articles = <<>>
    /\ filtered_vish = <<>>
    /\ filtered_high_speed = <<>>
    /\ filtered_rzd = <<>>
    /\ final_articles = <<>>
    /\ clf_calls = 0
    /\ dashboard_content = <<>>
    /\ json_file = Absent
    /\ html_file = Absent

PureIdle ==
    /\ p_fn = "none"
    /\ p_input = <<>>
    /\ p_keywords = <<>>
    /\ p_clf = <<>>
    /\ p_articles = <<>>
    /\ p_result = <<>>
    /\ p_done = "done"

Init == MainInit /\ PureIdle

----------------------------------------------------------------------------
(* fetch_news: session.get under the mounted Retry, then lines 39-53 *)

InGet == pc \in FetchPcs /\ exc = "none" /\ fpc = "get"

\* one more GET goes out; the first of a call is the call being made
Attempt(outcome) ==
    /\ trace' = Append(trace, outcome)
    /\ issued' = IF trace = <<>> THEN Append(issued, pc) ELSE issued
    /\ UNCHANGED <<pc, exc, status, newsVars, pipelineVars, pureVars>>

\* a status of status_forcelist or a connection error, with retries left:
\* Retry.increment, the backoff sleep, and the request goes out again
GetRetried(outcome) ==
    /\ InGet
    /\ outcome = ConnError \/ IsRetry(outcome)
    /\ ~IsExhausted(total - 1)
    /\ total' = total - 1
    /\ Attempt(outcome)
    /\ UNCHANGED <<fpc, response, get_raised>>

\* the same with no retry left: MaxRetryError, which requests raises as
\* RetryError (status) or ConnectionError; `response` is never assigned
GetExhausted(outcome) ==
    /\ InGet
    /\ outcome = ConnError \/ IsRetry(outcome)
    /\ IsExhausted(total - 1)
    /\ total' = total - 1
    /\ get_raised' = IF outcome = ConnError THEN "ConnectionError" ELSE "RetryError"
    /\ fpc' = "handle"
    /\ Attempt(outcome)
    /\ UNCHANGED response

\* any other status: session.get returns the response
GetResponded(status_code, body) ==
    /\ InGet
    /\ status_code # ConnError /\ ~IsRetry(status_code)
    /\ response' = [bound |-> TRUE, status_code |-> status_code, body |-> body]
    /\ fpc' = "handle"
    /\ Attempt(status_code)
    /\ UNCHANGED <<total, get_raised>>

InHandle == pc \in FetchPcs /\ exc = "none" /\ fpc = "handle"

\* fetch_news returns `list` to main, which goes on to its next statement;
\* the locals of the call are gone
Return(list, how) ==
    /\ vish_news' = IF pc = "fetch_vish_news" THEN list ELSE vish_news
    /\ high_speed_news' =
           IF pc = "fetch_high_speed_railways" THEN list ELSE high_speed_news
    /\ russian_railways_news' =
           IF pc = "fetch_russian_railways" THEN list ELSE russian_railways_news
    /\ status' = [status EXCEPT ![pc] = how]
    /\ pc' = AfterFetch(pc)
    /\ fpc' = "get"
    /\ total' = RetryTotal
    /\ trace' = <<>>
    /\ response' = Unbound
    /\ get_raised' = "none"
    /\ UNCHANGED <<exc, issued, pipelineVars, pureVars>>

\* except RequestException, entered with `response` unbound: line 42 reads
\* it and raises UnboundLocalError, which nothing catches
FetchUnbound ==
    /\ InHandle
    /\ get_raised # "none"
    /\ ~response.bound
    /\ exc' = "UnboundLocalError"
    /\ status' = [status EXCEPT ![pc] = "no_response"]
    /\ UNCHANGED <<pc, fpc, total, trace, response, get_raised, issued, newsVars,
                   pipelineVars, pureVars>>

\* raise_for_status raises HTTPError; the handler logs and returns []
FetchHTTPError ==
    /\ InHandle
    /\ response.bound
    /\ RaisesForStatus(response.status_code)
    /\ Return(<<>>, "http_error")

\* lines 47-53
FetchParsed ==
    /\ InHandle
    /\ response.bound
    /\ ~RaisesForStatus(response.status_code)
    /\ Return(ParseArticles(response.body), "ok")

----------------------------------------------------------------------------
(* main after the three fetches *)

At(p) == pc = p /\ exc = "none"

Ids(n) == [i \in 1..n |-> i]

fetchVars == <<fpc, total, trace, response, get_raised, status, issued, newsVars>>

\* lines 153-156
Dedup ==
    /\ At("dedup")
    /\ all_articles' = vish_news \o high_speed_news \o russian_railways_news
    /\ unique_articles' = UniqueByLink(all_articles', Ids(Len(all_articles')))
    /\ pc' = "sort"
    /\ UNCHANGED <<exc, fetchVars, analyzed_articles, filtered_vish,
                   filtered_high_speed, filtered_rzd, final_articles, clf_calls,
                   dashboard_content, json_file, html_file, pureVars>>

\* line 159: list(unique_articles) is a new list of the same objects
Sort ==
    /\ At("sort")
    /\ analyzed_articles' = FilterAndSortArticles(all_articles, unique_articles)
    /\ pc' = "analyze"
    /\ UNCHANGED <<exc, fetchVars, all_articles, unique_articles, filtered_vish,
                   filtered_high_speed, filtered_rzd, final_articles, clf_calls,
                   dashboard_content, json_file, html_file, pureVars>>

\* line 160: one call of the model per article of the list
Analyze ==
    /\ At("analyze")
    /\ \E clf \in [1..Len(analyzed_articles) -> MainClfResults] :
          LET r == AnalyzeSentiment(all_articles, analyzed_articles, clf)
          IN  /\ all_articles' = r.heap
              /\ analyzed_articles' = r.list
    /\ clf_calls' = clf_calls + Len(analyzed_articles)
    /\ pc' = "adjust"
    /\ UNCHANGED <<exc, fetchVars, unique_articles, filtered_vish,
                   filtered_high_speed, filtered_rzd, final_articles,
                   dashboard_content, json_file, html_file, pureVars>>

\* line 161
Adjust ==
    /\ At("adjust")
    /\ LET r == AdjustSubjectivity(all_articles, analyzed_articles)
       IN  /\ all_articles' = r.heap
           /\ analyzed_articles' = r.list
    /\ pc' = "filter"
    /\ UNCHANGED <<exc, fetchVars, unique_articles, filtered_vish,
                   filtered_high_speed, filtered_rzd, final_articles, clf_calls,
                   dashboard_content, json_file, html_file, pureVars>>

\* lines 164-168
Filter ==
    /\ At("filter")
    /\ filtered_vish' =
           FilterArticlesByKeywords(all_articles, analyzed_articles, keywords_vish)
    /\ filtered_high_speed' =
           FilterArticlesByKeywords(all_articles, analyzed_articles, keywords_high_speed)
    /\ filtered_rzd' =
           FilterArticlesByKeywords(all_articles, analyzed_articles, keywords_rzd)
    /\ final_articles' = ConcatFinal(filtered_vish', filtered_high_speed', filtered_rzd')
    /\ pc' = "save_to_json"
    /\ UNCHANGED <<exc, fetchVars, all_articles, unique_articles, analyzed_articles,
                   clf_calls, dashboard_content, json_file, html_file, pureVars>>

\* the dict of lines 171-178
result ==
    Result(all_articles, unique_articles, analyzed_articles, filtered_vish,
           filtered_high_speed, filtered_rzd, final_articles)

reportVars == <<all_articles, unique_articles, analyzed_articles, filtered_vish,
                filtered_high_speed, filtered_rzd, final_articles, clf_calls>>

\* line 181, all of it written
SaveToJson ==
    /\ At("save_to_json")
    /\ json_file' = WriteFile(json_file, result, Len(result))
    /\ pc' = "create_dashboard"
    /\ UNCHANGED <<exc, fetchVars, reportVars, dashboard_content, html_file, pureVars>>

\* line 181: open() raises OSError; nothing is written
SaveToJsonOpenFails ==
    /\ At("save_to_json")
    /\ exc' = "OSError in open"
    /\ UNCHANGED <<pc, fetchVars, reportVars, dashboard_content, json_file,
                   html_file, pureVars>>

\* line 181: json.dump raises after k of the six keys went out; the with
\* statement closes the file and the exception goes on
SaveToJsonWriteFails(k) ==
    /\ At("save_to_json")
    /\ k < Len(result)
    /\ json_file' = WriteFile(json_file, result, k)
    /\ exc' = "OSError in write"
    /\ UNCHANGED <<pc, fetchVars, reportVars, dashboard_content, html_file, pureVars>>

\* line 184
CreateDashboardDone ==
    /\ At("create_dashboard")
    /\ dashboard_content' = CreateDashboard(all_articles, final_articles)
    /\ pc' = "save_dashboard"
    /\ UNCHANGED <<exc, fetchVars, reportVars, json_file, html_file, pureVars>>

\* line 184: building the string raises (MemoryError)
CreateDashboardFails ==
    /\ At("create_dashboard")
    /\ exc' = "MemoryError"
    /\ UNCHANGED <<pc, fetchVars, reportVars, dashboard_content, json_file,
                   html_file, pureVars>>

\* line 185, all of it written: main returns
SaveDashboard ==
    /\ At("save_dashboard")
    /\ html_file' = WriteFile(html_file, dashboard_content, Len(dashboard_content))
    /\ pc' = "done"
    /\ UNCHANGED <<exc, fetchVars, reportVars, dashboard_content, json_file, pureVars>>

SaveDashboardOpenFails ==
    /\ At("save_dashboard")
    /\ exc' = "OSError in open"
    /\ UNCHANGED <<pc, fetchVars, reportVars, dashboard_content, json_file,
                   html_file, pureVars>>

SaveDashboardWriteFails(k) ==
    /\ At("save_dashboard")
    /\ k < Len(dashboard_content)
    /\ html_file' = WriteFile(html_file, dashboard_content, k)
    /\ exc' = "OSError in write"
    /\ UNCHANGED <<pc, fetchVars, reportVars, dashboard_content, json_file, pureVars>>

Next ==
    \/ \E o \in ServerOutcomes : GetRetried(o)
    \/ \E o \in ServerOutcomes : GetExhausted(o)
    \/ \E b \in Bodies : GetResponded(200, b)
    \/ GetResponded(404, NoBody)
    \/ FetchUnbound
    \/ FetchHTTPError
    \/ FetchParsed
    \/ Dedup
    \/ Sort
    \/ Analyze
    \/ Adjust
    \/ Filter
    \/ SaveToJson
    \/ SaveToJsonOpenFails
    \/ \E k \in 0..5 : SaveToJsonWriteFails(k)
    \/ CreateDashboardDone
    \/ CreateDashboardFails
    \/ SaveDashboard
    \/ SaveDashboardOpenFails
    \/ \E k \in 0..(Len(dashboard_content) - 1) : SaveDashboardWriteFails(k)

Spec == Init /\ [][Next]_vars

----------------------------------------------------------------------------
(* The functions of NewsParser applied on their own to any list *)

Article(title, link, published, has_description, description) ==
    [title |-> title, link |-> link, published |-> published,
     has_description |-> has_description, description |-> description,
     sentiment |-> "absent", subjectivity |-> -1]

SortPool ==
    { Article(TitlePogoda, l, p, FALSE, <<>>) :
        l \in {"A", "B"}, p \in {PubJan, PubMar, PubShort} }

AdjustPool ==
    { Article(TitleVishRzd, "A", PubJan, FALSE, <<>>),
      Article(TitleVsm, "B", PubMar, FALSE, <<>>) }

\* titles and descriptions over the letters of "VISH"; a description may be
\* a key the article does not have
FilterPool ==
    { Article(t, "A", PubJan, FALSE, <<>>) :
        t \in {<<>>, <<1042>>, <<1042, 1048>>, <<1048, 1042, 1048>>} }
    \cup
    { Article(t, "A", PubJan, TRUE, d) :
        t \in {<<>>, <<1042>>, <<1042, 1048>>, <<1048, 1042, 1048>>},
        d \in {<<1064>>, <<1048, 1042>>} }

KeywordPool == {<<>>, <<1042>>, <<1042, 1048>>, <<1064>>}

PureStart ==
    /\ p_clf = <<>>
    /\ p_articles = p_input
    /\ p_result = <<>>
    /\ p_done = "start"

PureInit ==
    /\ MainInit
    /\ \/ /\ p_fn = "sort"
          /\ p_input \in SeqsUpTo(SortPool, MaxLen)
          /\ p_keywords = <<>>
       \/ /\ p_fn = "adjust"
          /\ p_input \in SeqsUpTo(AdjustPool, MaxLen)
          /\ p_keywords = <<>>
       \/ /\ p_fn = "filter"
          /\ p_input \in SeqsUpTo(FilterPool, MaxFilterLen)
          /\ p_keywords \in SeqsUpTo(KeywordPool, MaxKeywords)
    /\ PureStart

\* filter_and_sort_articles(p_input)
PureSort ==
    /\ p_fn = "sort" /\ p_done = "start"
    /\ p_result' = FilterAndSortArticles(p_articles, Ids(Len(p_articles)))
    /\ p_done' = "done"
    /\ UNCHANGED <<mainVars, p_fn, p_input, p_keywords, p_clf, p_articles>>

\* analyze_sentiment(p_input)
PureAnalyze ==
    /\ p_fn = "adjust" /\ p_done = "start"
    /\ \E clf \in [1..Len(p_articles) -> ClfResults] :
          LET r == AnalyzeSentiment(p_articles, Ids(Len(p_articles)), clf)
          IN  /\ p_clf' = clf
              /\ p_articles' = r.heap
              /\ p_result' = r.list
    /\ p_done' = "analyzed"
    /\ UNCHANGED <<mainVars, p_fn, p_input, p_keywords>>

\* adjust_subjectivity of what analyze_sentiment returned
PureAdjust ==
    /\ p_fn = "adjust" /\ p_done = "analyzed"
    /\ LET r == AdjustSubjectivity(p_articles, p_result)
       IN  /\ p_articles' = r.heap
           /\ p_result' = r.list
    /\ p_done' = "done"
    /\ UNCHANGED <<mainVars, p_fn, p_input, p_keywords, p_clf>>

\* filter_articles_by_keywords(p_input, p_keywords)
PureFilter ==
    /\ p_fn = "filter" /\ p_done = "start"
    /\ p_result' =
           FilterArticlesByKeywords(p_articles, Ids(Len(p_articles)), p_keywords)
    /\ p_done' = "done"
    /\ UNCHANGED <<mainVars, p_fn, p_input, p_keywords, p_clf, p_articles>>

PureNext == PureSort \/ PureAnalyze \/ PureAdjust \/ PureFilter

SpecPure == PureInit /\ [][PureNext]_vars

----------------------------------------------------------------------------
(* Vocabulary of the properties, stated without the program's loops *)

Range(f) == { f[i] : i \in DOMAIN f }

\* the list fetch_news returned for query q
NewsOf(q) ==
    IF q = "fetch_vish_news" THEN vish_news
    ELSE IF q = "fetch_high_speed_railways" THEN high_speed_news
    ELSE russian_railways_news

Failed(q) == status[q] \in {"http_error", "no_response"}

\* the concatenated input of the dedup
Merged == vish_news \o high_speed_news \o russian_railways_news

\* a <= b lexicographically: equal, a proper prefix, or smaller at the first
\* place where they differ
LexLeq(a, b) ==
    \/ a = b
    \/ \E k \in 0..Len(a) :
          /\ k <= Len(b)
          /\ SubSeq(a, 1, k) = SubSeq(b, 1, k)
          /\ \/ k = Len(a) /\ k < Len(b)
             \/ k < Len(a) /\ k < Len(b) /\ a[k + 1] < b[k + 1]

\* k occurs in s: s = u \o k \o v for some u and v, a being the length of u
Occurs(k, s) ==
    \E a \in 0..(Len(s) - Len(k)) : \A i \in 1..Len(k) : s[a + i] = k[i]

\* some keyword of the list occurs in the title or in the description, a
\* missing description being the empty string
Matches(article, keywords) ==
    \E j \in 1..Len(keywords) :
        \/ Occurs(keywords[j], article.title)
        \/ article.has_description /\ Occurs(keywords[j], article.description)
        \/ ~article.has_description /\ keywords[j] = <<>>

\* sub lists some of the elements of 1..n, in increasing order
IsSubsequenceOfIds(sub, n) ==
    /\ \A i \in 1..Len(sub) : sub[i] \in 1..n
    /\ \A i \in 1..Len(sub) : \A j \in 1..Len(sub) : i < j => sub[i] < sub[j]

\* sub is list with some elements left out, the rest in their order
IsSubsequence(sub, list) ==
    \E pos \in [1..Len(sub) -> 1..Len(list)] :
        /\ \A i \in 1..Len(sub) : list[pos[i]] = sub[i]
        /\ \A i \in 1..Len(sub) : \A j \in 1..Len(sub) : i < j => pos[i] < pos[j]

Count(list, x) == Cardinality({ i \in 1..Len(list) : list[i] = x })

ReportBuilt == pc \in {"save_to_json", "create_dashboard", "save_dashboard", "done"}

----------------------------------------------------------------------------
(* C1 *)

\* C1: whenever the GET of a fetch_news call ended in a non-2xx response or
\* with no response object at all (connection error, retries exhausted), the
\* call returned the empty list and no exception left it.
C1_FetchFailureReturnsEmpty ==
    \A q \in FetchPcs :
        Failed(q) => NewsOf(q) = <<>> /\ exc # "UnboundLocalError"

----------------------------------------------------------------------------
(* C2 *)

\* C2: when some of the three queries failed at the network or HTTP level,
\* main has still issued all three queries in order, counted each failed one
\* as no articles, and ended having written both files in full.
C2_MainCompletesDespiteFailedQueries ==
    ((pc = "done" \/ exc = "UnboundLocalError") /\ \E q \in FetchPcs : Failed(q))
    => /\ issued = Queries
       /\ \A q \in FetchPcs : Failed(q) => NewsOf(q) = <<>>
       /\ pc = "done"
       /\ json_file = [origin |-> "run", content |-> result]
       /\ html_file = [origin |-> "run", content |-> dashboard_content]

----------------------------------------------------------------------------
(* C3 *)

\* C3: the deduplicated set holds exactly one article per distinct link of
\* the concatenated input (vish + high_speed + russian_railways), and for a
\* link that occurs several times it is the last occurrence in input order.
C3_DedupKeepsLastPerLink ==
    pc \notin (FetchPcs \cup {"dedup"}) =>
        LET n == Len(Merged)
            links == { Merged[i].link : i \in 1..n }
        IN  /\ Len(all_articles) = n
            /\ \A i \in 1..n :
                  /\ all_articles[i].link = Merged[i].link
                  /\ all_articles[i].title = Merged[i].title
                  /\ all_articles[i].published = Merged[i].published
            /\ Range(unique_articles) \subseteq 1..n
            /\ Len(unique_articles) = Cardinality(links)
            /\ \A l \in links :
                  /\ Cardinality({ j \in 1..Len(unique_articles) :
                                     Merged[unique_articles[j]].link = l }) = 1
                  /\ \E j \in 1..Len(unique_articles) :
                        /\ Merged[unique_articles[j]].link = l
                        /\ \A i \in 1..n :
                              Merged[i].link = l => i <= unique_articles[j]

\* links A, B, A with different titles under A: two articles are kept, and
\* the one for A carries the fields of the second A
C3_Witness ==
    /\ pc = "sort"
    /\ Len(all_articles) = 3
    /\ all_articles[1].link = "A"
    /\ all_articles[2].link = "B"
    /\ all_articles[3].link = "A"
    /\ all_articles[1].title # all_articles[3].title
    /\ Len(unique_articles) = 2
    /\ 3 \in Range(unique_articles)
    /\ 1 \notin Range(unique_articles)

----------------------------------------------------------------------------
(* C4 *)

\* C4: filter_and_sort_articles returns a permutation of its input whose
\* published strings are non-increasing under lexicographic comparison.
C4_SortIsDescendingPermutation ==
    (p_fn = "sort" /\ p_done = "done") =>
        LET n == Len(p_input)
        IN  /\ Len(p_result) = n
            /\ Range(p_result) = 1..n
            /\ \A i \in 1..n : p_articles[i] = p_input[i]
            /\ \A i \in 1..(n - 1) :
                  LexLeq(p_articles[p_result[i + 1]].published,
                         p_articles[p_result[i]].published)

\* three articles given in ascending order of published, one of them the
\* short string, have been sorted
C4_Witness ==
    /\ p_fn = "sort" /\ p_done = "done"
    /\ Len(p_input) = 3
    /\ p_input[1].published = PubJan
    /\ p_input[2].published = PubMar
    /\ p_input[3].published = PubShort
    /\ p_result = <<3, 2, 1>>

----------------------------------------------------------------------------
(* C5 *)

\* C5: after adjust_subjectivity every NEUTRAL article has subjectivity
\* exactly 0.1, every POSITIVE or NEGATIVE article has the score the
\* classifier returned for it, and sentiment, title, link and published are
\* what they were before the adjustment.
C5_NeutralOverrideOnly ==
    (p_fn = "adjust" /\ p_done = "done") =>
        /\ Len(p_articles) = Len(p_input)
        /\ p_result = Ids(Len(p_input))
        /\ \A i \in 1..Len(p_input) :
              /\ p_articles[i].sentiment = "NEUTRAL"
                    => p_articles[i].subjectivity = 100
              /\ p_articles[i].sentiment \in {"POSITIVE", "NEGATIVE"}
                    => p_articles[i].subjectivity = p_clf[i].score
              /\ p_articles[i].sentiment = p_clf[i].label
              /\ p_articles[i].title = p_input[i].title
              /\ p_articles[i].link = p_input[i].link
              /\ p_articles[i].published = p_input[i].published

\* a NEUTRAL article scored 0.87 has come out with 0.1 next to a POSITIVE
\* one that kept its 0.87
C5_Witness ==
    /\ p_fn = "adjust" /\ p_done = "done"
    /\ Len(p_input) = 2
    /\ p_clf[1] = [label |-> "NEUTRAL", score |-> 870]
    /\ p_clf[2] = [label |-> "POSITIVE", score |-> 870]
    /\ p_articles[1].subjectivity = 100
    /\ p_articles[2].subjectivity = 870

----------------------------------------------------------------------------
(* C6 *)

\* C6: filter_articles_by_keywords returns a subsequence of its input, an
\* article being in it if and only if some keyword of the list is a literal
\* substring of its title or of its description (a missing description being
\* the empty string); an empty keyword list gives an empty result.
C6_FilterIsKeywordSubsequence ==
    (p_fn = "filter" /\ p_done = "done") =>
        /\ IsSubsequenceOfIds(p_result, Len(p_input))
        /\ \A i \in 1..Len(p_input) :
              i \in Range(p_result) <=> Matches(p_input[i], p_keywords)
        /\ p_keywords = <<>> => p_result = <<>>
        /\ p_articles = p_input

\* of two articles the first is dropped and the second is kept for its
\* description alone
C6_Witness ==
    /\ p_fn = "filter" /\ p_done = "done"
    /\ Len(p_input) = 2
    /\ p_keywords = << <<1064>>, <<1042, 1048>> >>
    /\ p_input[1].title = <<1042>> /\ ~p_input[1].has_description
    /\ p_input[2].title = <<1042>> /\ p_input[2].description = <<1064>>
    /\ p_result = <<2>>

----------------------------------------------------------------------------
(* C7 *)

Retryable(outcome) == outcome \in {500, 502, 503, 504}

\* the list fetch_news hands to main in the step that returns from query q
NewsAfter(q) ==
    IF q = "fetch_vish_news" THEN vish_news'
    ELSE IF q = "fetch_high_speed_railways" THEN high_speed_news'
    ELSE russian_railways_news'

\* what holds of a running session.get: never more than 6 attempts; after k
\* failed attempts, k <= 5, the client is still asking; it gives up only
\* after 6; a response it returns is the one that ended the attempts
RetryPolicyKept ==
    /\ Len(trace) <= 6
    /\ (pc \in FetchPcs /\ fpc = "get") => Len(trace) <= 5 /\ get_raised = "none"
    /\ get_raised # "none" => Len(trace) = 6
    /\ response.bound =>
          /\ trace # <<>>
          /\ trace[Len(trace)] = response.status_code
          /\ get_raised = "none"

\* C7: at most 5 consecutive 500/502/503/504 responses followed by a 200 (the
\* spec's 503, 503, 503, 200 among them) end in fetch_news returning the
\* articles of the 200 response, and no query ever takes more than 6 GETs.
C7_RetryThenSuccess ==
    [][ /\ RetryPolicyKept'
        /\ (/\ pc \in FetchPcs /\ fpc = "handle" /\ exc = "none"
            /\ response.bound /\ response.status_code = 200
            /\ \A i \in 1..(Len(trace) - 1) : Retryable(trace[i]))
           => /\ exc' = "none"
              /\ pc' # pc
              /\ status'[pc] = "ok"
              /\ LET given == IF response.body.has_articles
                              THEN response.body.articles ELSE <<>>
                     got == NewsAfter(pc)
                 IN  /\ Len(got) = Len(given)
                     /\ \A i \in 1..Len(given) :
                           /\ got[i].title = given[i].title
                           /\ got[i].link = given[i].url
                           /\ got[i].published = given[i].publishedAt
      ]_vars

\* 503, 503, 503, 200: the 200 response with an article in it is in hand
C7_Witness ==
    /\ pc = "fetch_high_speed_railways"
    /\ fpc = "handle"
    /\ trace = <<503, 503, 503, 200>>
    /\ response.bound
    /\ response.status_code = 200
    /\ Len(response.body.articles) = 1

----------------------------------------------------------------------------
(* C8 *)

IOFailure == exc \in {"OSError in open", "OSError in write", "MemoryError"}

\* C8 as the spec states it: after a failure partway through report
\* generation neither output file holds new or partial content of this run.
C8_NoOutputLeftOnFailure ==
    IOFailure => json_file.origin # "run" /\ html_file.origin # "run"

IsProperPrefix(a, b) == Len(a) < Len(b) /\ a = SubSeq(b, 1, Len(a))

Untouched(file) == file = Absent

\* C8 amended: nothing is rolled back.  A file whose open() failed is as it
\* was; a file whose write failed is left truncated to a proper prefix of
\* what this run was writing; a failure in or after dashboard rendering
\* leaves all_articles.json complete; news_dashboard.html is touched only by
\* save_dashboard.
C8_FailureLeavesWhatWasWritten ==
    IOFailure =>
        /\ pc = "save_to_json" =>
              /\ Untouched(html_file)
              /\ exc = "OSError in open" => Untouched(json_file)
              /\ exc = "OSError in write" =>
                    /\ json_file.origin = "run"
                    /\ IsProperPrefix(json_file.content, result)
        /\ pc \in {"create_dashboard", "save_dashboard"} =>
              json_file = [origin |-> "run", content |-> result]
        /\ pc = "create_dashboard" => Untouched(html_file)
        /\ pc = "save_dashboard" =>
              /\ exc = "OSError in open" => Untouched(html_file)
              /\ exc = "OSError in write" =>
                    /\ html_file.origin = "run"
                    /\ IsProperPrefix(html_file.content, dashboard_content)

\* json.dump failed after three of the six keys: a partial all_articles.json
\* of this run is on disk
C8_Witness ==
    /\ pc = "save_to_json"
    /\ exc = "OSError in write"
    /\ json_file.origin = "run"
    /\ Len(json_file.content) = 3
    /\ json_file.content[1].value # <<>>

----------------------------------------------------------------------------
(* C9 *)

KeywordSets == <<keywords_vish, keywords_high_speed, keywords_rzd>>

\* C9: final_articles is filtered_vish, then filtered_high_speed, then
\* filtered_rzd, each the keyword filter of the one analyzed list; so every
\* element of it is an analyzed article, an article matching k of the three
\* keyword sets is in it k times, and the dashboard is rendered from exactly
\* this list in this order.
C9_FinalIsConcatenationOfFilters ==
    ReportBuilt =>
        LET filters == <<filtered_vish, filtered_high_speed, filtered_rzd>>
            \* the keyword sets each analyzed article matches
            sets == [x \in Range(analyzed_articles) |->
                        { s \in 1..3 : Matches(all_articles[x], KeywordSets[s]) }]
        IN  /\ Len(final_articles) =
                  Len(filtered_vish) + Len(filtered_high_speed) + Len(filtered_rzd)
            /\ SubSeq(final_articles, 1, Len(filtered_vish)) = filtered_vish
            /\ SubSeq(final_articles, Len(filtered_vish) + 1,
                      Len(filtered_vish) + Len(filtered_high_speed))
                  = filtered_high_speed
            /\ SubSeq(final_articles,
                      Len(filtered_vish) + Len(filtered_high_speed) + 1,
                      Len(final_articles)) = filtered_rzd
            /\ \A s \in 1..3 :
                  /\ IsSubsequence(filters[s], analyzed_articles)
                  /\ \A x \in Range(analyzed_articles) :
                        x \in Range(filters[s]) <=> s \in sets[x]
            /\ Range(final_articles) \subseteq Range(analyzed_articles)
            /\ \A x \in Range(analyzed_articles) :
                  Count(final_articles, x) = Cardinality(sets[x])
            /\ pc \in {"save_dashboard", "done"} =>
                  /\ Len(dashboard_content) = Len(final_articles) + 2
                  /\ \A i \in 1..Len(final_articles) :
                        LET li == dashboard_content[i + 1]
                            entry == all_articles[final_articles[i]]
                        IN  /\ li.kind = "li"
                            /\ li.href = entry.link
                            /\ li.title = entry.title
                            /\ li.published = entry.published
                            /\ li.sentiment = entry.sentiment
            /\ pc = "done" => html_file.content = dashboard_content

\* an article matching two keyword sets is twice in final_articles and twice
\* on the dashboard that was written
C9_Witness ==
    /\ pc = "done"
    /\ \E x \in Range(analyzed_articles) : Count(final_articles, x) = 2
    /\ Len(final_articles) = 3
    /\ Len(html_file.content) = 5

----------------------------------------------------------------------------
(* C10 *)

\* place of the first article with link l in the merged input
FirstOccurrence(l) ==
    CHOOSE i \in 1..Len(Merged) :
        /\ Merged[i].link = l
        /\ \A j \in 1..(i - 1) : Merged[j].link # l

\* C10: in the serialized report unique_articles and analyzed_articles hold
\* the same articles, one per link, with identical fields: each carries a
\* sentiment and the adjusted subjectivity (0.1 for NEUTRAL), the classifier
\* was invoked once per distinct link, unique_articles is in the order in
\* which the links first occur in the merged input and analyzed_articles in
\* descending order of published.
C10_UniqueAndAnalyzedAreSameArticles ==
    (json_file.origin = "run" /\ Len(json_file.content) >= 2) =>
        LET u == json_file.content[1].value
            a == json_file.content[2].value
            links == { Merged[i].link : i \in 1..Len(Merged) }
        IN  /\ json_file.content[1].key = "unique_articles"
            /\ json_file.content[2].key = "analyzed_articles"
            /\ Len(u) = Len(a)
            /\ Range(u) = Range(a)
            /\ { u[i].link : i \in 1..Len(u) } = links
            /\ Len(u) = Cardinality(links)
            /\ clf_calls = Cardinality(links)
            /\ \A i \in 1..Len(u) :
                  /\ u[i].sentiment \in Labels
                  /\ u[i].subjectivity >= 0
                  /\ u[i].sentiment = "NEUTRAL" => u[i].subjectivity = 100
            /\ \A i \in 1..Len(u) : \A j \in 1..Len(u) :
                  i < j => FirstOccurrence(u[i].link) < FirstOccurrence(u[j].link)
            /\ \A i \in 1..(Len(a) - 1) :
                  LexLeq(a[i + 1].published, a[i].published)

\* two links, listed in opposite orders by the two collections, one of the
\* articles NEUTRAL, in a report written in full
C10_Witness ==
    /\ pc = "done"
    /\ Len(json_file.content) = 6
    /\ Len(json_file.content[1].value) = 2
    /\ json_file.content[1].value[1] = json_file.content[2].value[2]
    /\ json_file.content[1].value[1] # json_file.content[1].value[2]
    /\ json_file.content[1].value[1].sentiment = "NEUTRAL"
    /\ json_file.content[1].value[1].subjectivity = 100

====
